---- MODULE Spec2Model ----
(***************************************************************************)
(* Model of src/main.py: a FastAPI service with generic key-value          *)
(* endpoints on Redis and users CRUD on Postgres with a Redis cache.       *)
(* Every handler is a sequence of atomic steps, one per blocking I/O call  *)
(* (Redis command, Postgres connect, Postgres transaction).  Each I/O call *)
(* may fail.                                                               *)
(***************************************************************************)
EXTENDS Integers, Sequences, FiniteSets, TLC

(* ------------------------------ bounds -------------------------------- *)
\* largest id the users table's sequence hands out
MaxId == 2
\* number of request workers (threads of the server's thread pool)
NumWorkers == 2

Workers == 1..NumWorkers
Ids == 1..MaxId
\* request inputs
Names == {"Ann", "Bob"}
Emails == {"ann@x.com", "bob@x.com"}

(* --------------------------- Python values ---------------------------- *)
\* Optional[T]: None is the empty sequence, a value v is <<v>>
None == <<>>
Some(v) == <<v>>
IsNone(o) == o = <<>>
Val(o) == o[1]

\* the outcome of a block of code: it returns a value or raises
Return(v) == [kind |-> "return", value |-> v]
Raise(e) == [kind |-> "raise", exc |-> e]

\* exceptions
HTTPException(status_code, detail) ==
    [type |-> "HTTPException", status_code |-> status_code, detail |-> detail]
RedisError == [type |-> "RedisError", msg |-> "redis: connection refused"]
OperationalError == [type |-> "OperationalError", msg |-> "postgres: connection refused"]
UniqueViolation == [type |-> "UniqueViolation", msg |-> "duplicate key value violates unique constraint"]
JSONDecodeError == [type |-> "JSONDecodeError", msg |-> "Expecting value"]
AttributeError == [type |-> "AttributeError", msg |-> "'NoneType' object has no attribute 'close'"]
TypeError == [type |-> "TypeError", msg |-> "'NoneType' object is not subscriptable"]

(* ------------------------------ helpers ------------------------------- *)
user_cache_key(user_id) == "user:" \o ToString(user_id)

\* json.dumps of a row dict {id, name, email}
json_dumps(user) ==
    "{\"id\": " \o ToString(user.id) \o ", \"name\": \"" \o user.name
        \o "\", \"email\": \"" \o user.email \o "\"}"

\* the row dicts whose serialisation json.loads can meet in this model
Docs == [id : Ids, name : Names, email : Emails]

\* json.loads: the document whose serialisation is data, or JSONDecodeError
json_loads(data) ==
    IF \E d \in Docs : json_dumps(d) = data
    THEN Return(CHOOSE d \in Docs : json_dumps(d) = data)
    ELSE Raise(JSONDecodeError)

\* keys and values of the generic key-value endpoints
KvKeys == {"k", user_cache_key(1)}
KvValues == {"", json_dumps([id |-> 1, name |-> "Bob", email |-> "bob@x.com"])}
Keys == KvKeys \cup {user_cache_key(i) : i \in Ids}

\* a cache_user that writes nothing
cache_user_noop(c, user) == c

\* r.set(key, json.dumps(user)) on the Redis keyspace c
cache_user(c, user) ==
    [c EXCEPT ![user_cache_key(user.id)] = Some(json_dumps(user))]

\* a delete_user_cache that keeps the entry
delete_user_cache_keeps(c, user_id) == c

\* r.delete(key) on the Redis keyspace c
delete_user_cache(c, user_id) ==
    [c EXCEPT ![user_cache_key(user_id)] = None]

\* r.get(key); "if not data: return None"; json.loads(data)
get_user_from_cache(c, user_id) ==
    LET data == c[user_cache_key(user_id)]
    IN  IF IsNone(data) \/ data = Some("")
        THEN Return(None)
        ELSE LET doc == json_loads(Val(data))
             IN  IF doc.kind = "raise" THEN doc ELSE Return(Some(doc.value))

\* response_model=UserOut: the response carries the model's fields only
UserOut(d) == [id |-> d.id, name |-> d.name, email |-> d.email]

\* the handler's dict with the "_source" key added
WithSource(user, src) == user @@ ("_source" :> src)

(* ----------------------- except / finally clauses --------------------- *)
\* except clauses without the UniqueViolation one
ExceptNoConflict(op, e) ==
    IF e.type = "HTTPException" /\ op \in {"get_user", "update_user", "delete_user"}
    THEN e
    ELSE HTTPException(500, e.msg)

\* "except ...: raise HTTPException(...)" of each handler
Except(op, e) ==
    CASE e.type = "UniqueViolation" /\ op \in {"create_user", "update_user"}
            -> HTTPException(409, "Email already exists")
      [] e.type = "HTTPException" /\ op \in {"get_user", "update_user", "delete_user"}
            -> e
      [] OTHER -> HTTPException(500, e.msg)

\* "finally: if 'conn' in locals(): conn.close()": conn is always a local,
\* and None.close() raises AttributeError, which replaces the exception in flight
Finally(conn, out) ==
    IF conn = "None" THEN Raise(AttributeError) ELSE out

\* the outcome of a try block that raised e with connection state conn
Failed(op, conn, e) == Finally(conn, Raise(Except(op, e)))

\* the outcome of a try block that returned v
Returned(conn, v) == Finally(conn, Return(v))

\* status_code of the route decorators
SuccessStatus(op) ==
    CASE op = "create_user" -> 201
      [] op = "delete_user" -> 204
      [] OTHER -> 200

\* the response body of a returned value, through the route's response_model
ResponseBody(op, v) ==
    CASE op \in {"create_user", "get_user", "update_user"} -> UserOut(v)
      [] op = "list_users" -> [i \in DOMAIN v |-> UserOut(v[i])]
      [] OTHER -> v

\* the HTTP response of an outcome: an HTTPException gives its status and detail,
\* any other exception is unhandled and gives a plain 500
Respond(op, out) ==
    IF out.kind = "return"
    THEN [status |-> SuccessStatus(op), body |-> ResponseBody(op, out.value),
          ret |-> Some(out.value)]
    ELSE IF out.exc.type = "HTTPException"
    THEN [status |-> out.exc.status_code, body |-> [detail |-> out.exc.detail],
          ret |-> None]
    ELSE [status |-> 500, body |-> [text |-> "Internal Server Error"], ret |-> None]

(* ------------------------------- state -------------------------------- *)
VARIABLES
    store,      \* the users table: id -> Optional row
    nextId,     \* the next value of the id sequence
    cache,      \* the Redis keyspace: key -> Optional string
    rq,         \* per worker: the request in flight, its position, locals and response
    prev,       \* history: the request answered last, if it was a create_user answered 201
    gone,       \* history: the ids whose delete_user was answered 204
    kvset       \* history: key -> the value of the last set_value answered 200, if any

vars == <<store, nextId, cache, rq, prev, gone, kvset>>

\* a worker's request: op and arguments (id, name, email, key, value), position pc,
\* locals (conn; row is "user" / "existing"), and once pc = "done" the response
\* (status, body; ret is the handler's return value).  History: pre is the store
\* row of id (create_user: of the email's holder) when the request started, fault
\* the I/O call that failed.
\* health's locals are redis_ok and pg_ok; probed is history: the outcomes of its
\* two probes, in order.  More history: snap is the store and the cache when the
\* request started, opened the number of connections it opened, st the time of
\* its store statement (get_user: the SELECT; else the INSERT, UPDATE or DELETE
\* that changed a row) and ct the time of its cache write or delete, 0 if none.
Idle ==
    [op |-> "idle", pc |-> "idle", id |-> 0, name |-> None, email |-> None,
     key |-> "", value |-> "", conn |-> "None", row |-> None, pre |-> None,
     fault |-> "none", status |-> 0, body |-> None, ret |-> None,
     redis_ok |-> FALSE, pg_ok |-> FALSE, probed |-> <<>>,
     snap |-> None, opened |-> 0, st |-> 0, ct |-> 0]

Init ==
    /\ store = [i \in Ids |-> None]
    /\ nextId = 1
    /\ cache = [k \in Keys |-> None]
    /\ rq = [w \in Workers |-> Idle]
    /\ prev = None
    /\ gone = {}
    /\ kvset = [k \in KvKeys |-> None]

hist == <<prev, gone, kvset>>

AllIdle == \A w \in Workers : rq[w].pc = "idle"

\* the rows of the table, "ORDER BY id ASC"
RECURSIVE RowsFrom(_, _)
RowsFrom(s, i) ==
    IF i > MaxId THEN <<>>
    ELSE (IF IsNone(s[i]) THEN <<>> ELSE <<Val(s[i])>>) \o RowsFrom(s, i + 1)

\* the id of the row holding email e, if any (email is UNIQUE)
EmailHolders(s, e) == {i \in Ids : ~IsNone(s[i]) /\ Val(s[i]).email = e}

(* ------------------------ request bookkeeping ------------------------- *)
\* history: a time later than every access of the requests in flight
RECURSIVE MaxTime(_)
MaxTime(ws) ==
    IF ws = {} THEN 0
    ELSE LET w == CHOOSE x \in ws : TRUE
             rest == MaxTime(ws \ {w})
             mine == IF rq[w].st > rq[w].ct THEN rq[w].st ELSE rq[w].ct
         IN  IF mine > rest THEN mine ELSE rest

Now == MaxTime(Workers) + 1

\* a finally clause that leaves the connection as it is
CloseNever(conn) == conn

\* conn.close() in the finally clause
Close(conn) == IF conn = "open" THEN "closed" ELSE conn

\* worker w takes a request
Begin(w, r) ==
    /\ rq[w].pc = "idle"
    /\ rq' = [rq EXCEPT ![w] = [r EXCEPT !.snap = Some([store |-> store, cache |-> cache])]]
    /\ UNCHANGED <<store, nextId, cache, hist>>

\* worker w moves on with its position and locals updated to r
Goto(w, r) == rq' = [rq EXCEPT ![w] = r] /\ UNCHANGED hist

\* worker w's handler ends with outcome out; fault names the I/O call that failed,
\* ct is the time of its cache write
FinishAt(w, out, fault, ct) ==
    LET r == rq[w]
        resp == Respond(r.op, out)
    IN  /\ rq' = [rq EXCEPT ![w] =
                    [r EXCEPT !.pc = "done", !.fault = fault, !.ct = ct,
                              !.conn = Close(r.conn),
                              !.status = resp.status, !.body = resp.body,
                              !.ret = resp.ret]]
        /\ UNCHANGED hist

Finish(w, out, fault) == FinishAt(w, out, fault, rq[w].ct)

\* the handler ends with outcome out in the step that wrote the cache
FinishCached(w, out) == FinishAt(w, out, "none", Now)

\* the response of worker w's request is sent; the worker is free again
Reply(w) ==
    LET r == rq[w]
    IN  /\ r.pc = "done"
        /\ rq' = [rq EXCEPT ![w] = Idle]
        /\ prev' = IF r.op = "create_user" /\ r.status = 201
                   THEN Some([op |-> r.op, id |-> r.body.id, body |-> r.body])
                   ELSE None
        /\ gone' = IF r.op = "delete_user" /\ r.status = 204 THEN gone \cup {r.id} ELSE gone
        /\ kvset' = IF r.op = "set_value" /\ r.status = 200
                    THEN [kvset EXCEPT ![r.key] = Some(r.value)] ELSE kvset
        /\ UNCHANGED <<store, nextId, cache>>

(* --------------------------- get_db_conn ------------------------------ *)
\* the first statement of every users handler's try block: conn = get_db_conn()
\* a delete_user that goes on to the cache without its DELETE
FirstQuerySkipsDelete(op) ==
    CASE op = "create_user" -> "insert"
      [] op = "list_users" -> "select_all"
      [] op = "get_user" -> "select"
      [] op = "update_user" -> "select"
      [] op = "delete_user" -> "cache_delete"

FirstQuery(op) ==
    CASE op = "create_user" -> "insert"
      [] op = "list_users" -> "select_all"
      [] op = "get_user" -> "select"
      [] op = "update_user" -> "select"
      [] op = "delete_user" -> "delete"

get_db_conn(w) ==
    /\ rq[w].pc = "connect"
    /\ \E ok \in BOOLEAN :
        IF ok
        THEN /\ Goto(w, [rq[w] EXCEPT !.conn = "open", !.opened = @ + 1,
                                      !.pc = FirstQuery(rq[w].op)])
             /\ UNCHANGED <<store, nextId, cache>>
        ELSE /\ Finish(w, Failed(rq[w].op, rq[w].conn, OperationalError), "connect")
             /\ UNCHANGED <<store, nextId, cache>>

(* ---------------------------- create_user ----------------------------- *)
create_user(w) ==
    /\ nextId <= MaxId
    /\ \E n \in Names, e \in Emails :
        Begin(w, [Idle EXCEPT !.op = "create_user", !.pc = "connect",
                              !.name = Some(n), !.email = Some(e),
                              !.pre = IF EmailHolders(store, e) = {} THEN None
                                      ELSE store[CHOOSE i \in EmailHolders(store, e) : TRUE]])

\* INSERT INTO users ... RETURNING id, name, email; and the commit.  The store
\* assigns a fresh id; an id that a failed INSERT used up is not modelled.
create_user_insert(w) ==
    LET r == rq[w]
        user == [id |-> nextId, name |-> Val(r.name), email |-> Val(r.email)]
    IN  /\ r.op = "create_user" /\ r.pc = "insert"
        /\ \E ok \in BOOLEAN :
            IF ~ok
            THEN /\ Finish(w, Failed(r.op, r.conn, OperationalError), "execute")
                 /\ UNCHANGED <<store, nextId, cache>>
            ELSE IF EmailHolders(store, Val(r.email)) # {}
            THEN /\ Finish(w, Failed(r.op, r.conn, UniqueViolation), "none")
                 /\ UNCHANGED <<store, nextId, cache>>
            ELSE /\ store' = [store EXCEPT ![nextId] = Some(user)]
                 /\ nextId' = nextId + 1
                 /\ Goto(w, [r EXCEPT !.row = Some(user), !.pc = "cache_user", !.st = Now])
                 /\ UNCHANGED cache

\* cache_user(user); return user
create_user_cache(w) ==
    LET r == rq[w]
    IN  /\ r.op = "create_user" /\ r.pc = "cache_user"
        /\ \E ok \in BOOLEAN :
            IF ok
            THEN /\ cache' = cache_user(cache, Val(r.row))
                 /\ FinishCached(w, Returned(r.conn, Val(r.row)))
                 /\ UNCHANGED <<store, nextId>>
            ELSE /\ Finish(w, Failed(r.op, r.conn, RedisError), "cache_set")
                 /\ UNCHANGED <<store, nextId, cache>>

(* ----------------------------- list_users ----------------------------- *)
list_users(w) ==
    Begin(w, [Idle EXCEPT !.op = "list_users", !.pc = "connect"])

\* SELECT id, name, email FROM users ORDER BY id ASC; return users
list_users_select(w) ==
    LET r == rq[w]
    IN  /\ r.op = "list_users" /\ r.pc = "select_all"
        /\ \E ok \in BOOLEAN :
            Finish(w, IF ok THEN Returned(r.conn, RowsFrom(store, 1))
                            ELSE Failed(r.op, r.conn, OperationalError),
                      IF ok THEN "none" ELSE "execute")
        /\ UNCHANGED <<store, nextId, cache>>

(* ------------------------------ get_user ------------------------------ *)
get_user(w) ==
    \E i \in Ids :
        Begin(w, [Idle EXCEPT !.op = "get_user", !.pc = "cache_get", !.id = i,
                              !.pre = store[i]])

\* cached = get_user_from_cache(user_id), outside the try block
get_user_cache_get(w) ==
    LET r == rq[w]
        cached == get_user_from_cache(cache, r.id)
    IN  /\ r.op = "get_user" /\ r.pc = "cache_get"
        /\ \E ok \in BOOLEAN :
            IF ~ok
            THEN /\ Finish(w, Raise(RedisError), "cache_get")
                 /\ UNCHANGED <<store, nextId, cache>>
            ELSE IF cached.kind = "raise"
            THEN /\ Finish(w, cached, "none")
                 /\ UNCHANGED <<store, nextId, cache>>
            ELSE IF ~IsNone(cached.value)
            THEN /\ Finish(w, Return(WithSource(Val(cached.value), "cache")), "none")
                 /\ UNCHANGED <<store, nextId, cache>>
            ELSE /\ Goto(w, [r EXCEPT !.pc = "connect"])
                 /\ UNCHANGED <<store, nextId, cache>>

\* SELECT id, name, email FROM users WHERE id = %s
get_user_select(w) ==
    LET r == rq[w]
    IN  /\ r.op = "get_user" /\ r.pc = "select"
        /\ \E ok \in BOOLEAN :
            IF ~ok
            THEN /\ Finish(w, Failed(r.op, r.conn, OperationalError), "execute")
                 /\ UNCHANGED <<store, nextId, cache>>
            ELSE IF IsNone(store[r.id])
            THEN /\ Finish(w, Failed(r.op, r.conn, HTTPException(404, "User not found")), "none")
                 /\ UNCHANGED <<store, nextId, cache>>
            ELSE /\ Goto(w, [r EXCEPT !.row = store[r.id], !.pc = "cache_user", !.st = Now])
                 /\ UNCHANGED <<store, nextId, cache>>

\* cache_user(user); user["_source"] = "db"; return user
get_user_cache_fill(w) ==
    LET r == rq[w]
    IN  /\ r.op = "get_user" /\ r.pc = "cache_user"
        /\ \E ok \in BOOLEAN :
            IF ok
            THEN /\ cache' = cache_user(cache, Val(r.row))
                 /\ FinishCached(w, Returned(r.conn, WithSource(Val(r.row), "db")))
                 /\ UNCHANGED <<store, nextId>>
            ELSE /\ Finish(w, Failed(r.op, r.conn, RedisError), "cache_set")
                 /\ UNCHANGED <<store, nextId, cache>>

(* ----------------------------- update_user ---------------------------- *)
\* a payload field is None (omitted) or a value
update_user(w) ==
    \E i \in Ids, n \in {None} \cup {Some(x) : x \in Names},
       e \in {None} \cup {Some(x) : x \in Emails} :
        Begin(w, [Idle EXCEPT !.op = "update_user", !.pc = "connect", !.id = i,
                              !.name = n, !.email = e, !.pre = store[i]])

\* SELECT id, name, email FROM users WHERE id = %s; "if not existing: raise 404"
update_user_select(w) ==
    LET r == rq[w]
    IN  /\ r.op = "update_user" /\ r.pc = "select"
        /\ \E ok \in BOOLEAN :
            IF ~ok
            THEN /\ Finish(w, Failed(r.op, r.conn, OperationalError), "execute")
                 /\ UNCHANGED <<store, nextId, cache>>
            ELSE IF IsNone(store[r.id])
            THEN /\ Finish(w, Failed(r.op, r.conn, HTTPException(404, "User not found")), "none")
                 /\ UNCHANGED <<store, nextId, cache>>
            ELSE /\ Goto(w, [r EXCEPT !.row = store[r.id], !.pc = "update"])
                 /\ UNCHANGED <<store, nextId, cache>>

\* a merge that keeps the existing email whatever the payload supplies
MergedRowKeepsEmail(user_id, existing, name, email) ==
    [id |-> user_id,
     name |-> IF ~IsNone(name) THEN Val(name) ELSE existing.name,
     email |-> existing.email]

\* new_name / new_email: the payload's field if it is not None, else existing's
MergedRow(user_id, existing, name, email) ==
    [id |-> user_id,
     name |-> IF ~IsNone(name) THEN Val(name) ELSE existing.name,
     email |-> IF ~IsNone(email) THEN Val(email) ELSE existing.email]

\* UPDATE users SET name, email WHERE id = %s RETURNING id, name, email; and
\* the commit.  The row may be gone by now: then no row is updated or returned.
update_user_update(w) ==
    LET r == rq[w]
        user == MergedRow(r.id, Val(r.row), r.name, r.email)
    IN  /\ r.op = "update_user" /\ r.pc = "update"
        /\ \E ok \in BOOLEAN :
            IF ~ok
            THEN /\ Finish(w, Failed(r.op, r.conn, OperationalError), "execute")
                 /\ UNCHANGED <<store, nextId, cache>>
            ELSE IF IsNone(store[r.id])
            THEN /\ Goto(w, [r EXCEPT !.row = None, !.pc = "cache_user"])
                 /\ UNCHANGED <<store, nextId, cache>>
            ELSE IF EmailHolders(store, user.email) \ {r.id} # {}
            THEN /\ Finish(w, Failed(r.op, r.conn, UniqueViolation), "none")
                 /\ UNCHANGED <<store, nextId, cache>>
            ELSE /\ store' = [store EXCEPT ![r.id] = Some(user)]
                 /\ Goto(w, [r EXCEPT !.row = Some(user), !.pc = "cache_user", !.st = Now])
                 /\ UNCHANGED <<nextId, cache>>

\* cache_user(user); return user.  user["id"] of None raises TypeError.
update_user_cache(w) ==
    LET r == rq[w]
    IN  /\ r.op = "update_user" /\ r.pc = "cache_user"
        /\ \E ok \in BOOLEAN :
            IF IsNone(r.row)
            THEN /\ Finish(w, Failed(r.op, r.conn, TypeError), "none")
                 /\ UNCHANGED <<store, nextId, cache>>
            ELSE IF ok
            THEN /\ cache' = cache_user(cache, Val(r.row))
                 /\ FinishCached(w, Returned(r.conn, Val(r.row)))
                 /\ UNCHANGED <<store, nextId>>
            ELSE /\ Finish(w, Failed(r.op, r.conn, RedisError), "cache_set")
                 /\ UNCHANGED <<store, nextId, cache>>

(* ----------------------------- delete_user ---------------------------- *)
delete_user(w) ==
    \E i \in Ids :
        Begin(w, [Idle EXCEPT !.op = "delete_user", !.pc = "connect", !.id = i,
                              !.pre = store[i]])

\* a delete_user that purges the cache entry although no row matched
delete_user_delete_purging(w) ==
    LET r == rq[w]
    IN  /\ r.op = "delete_user" /\ r.pc = "delete"
        /\ \E ok \in BOOLEAN :
            IF ~ok
            THEN /\ Finish(w, Failed(r.op, r.conn, OperationalError), "execute")
                 /\ UNCHANGED <<store, nextId, cache>>
            ELSE IF IsNone(store[r.id])
            THEN /\ cache' = delete_user_cache(cache, r.id)
                 /\ Finish(w, Failed(r.op, r.conn, HTTPException(404, "User not found")), "none")
                 /\ UNCHANGED <<store, nextId>>
            ELSE /\ store' = [store EXCEPT ![r.id] = None]
                 /\ Goto(w, [r EXCEPT !.pc = "cache_delete", !.st = Now])
                 /\ UNCHANGED <<nextId, cache>>

\* DELETE FROM users WHERE id = %s; "if cur.rowcount == 0: raise 404"; commit
delete_user_delete(w) ==
    LET r == rq[w]
    IN  /\ r.op = "delete_user" /\ r.pc = "delete"
        /\ \E ok \in BOOLEAN :
            IF ~ok
            THEN /\ Finish(w, Failed(r.op, r.conn, OperationalError), "execute")
                 /\ UNCHANGED <<store, nextId, cache>>
            ELSE IF IsNone(store[r.id])
            THEN /\ Finish(w, Failed(r.op, r.conn, HTTPException(404, "User not found")), "none")
                 /\ UNCHANGED <<store, nextId, cache>>
            ELSE /\ store' = [store EXCEPT ![r.id] = None]
                 /\ Goto(w, [r EXCEPT !.pc = "cache_delete", !.st = Now])
                 /\ UNCHANGED <<nextId, cache>>

\* delete_user_cache(user_id); return
delete_user_cache_delete(w) ==
    LET r == rq[w]
    IN  /\ r.op = "delete_user" /\ r.pc = "cache_delete"
        /\ \E ok \in BOOLEAN :
            IF ok
            THEN /\ cache' = delete_user_cache(cache, r.id)
                 /\ FinishCached(w, Returned(r.conn, None))
                 /\ UNCHANGED <<store, nextId>>
            ELSE /\ Finish(w, Failed(r.op, r.conn, RedisError), "cache_delete")
                 /\ UNCHANGED <<store, nextId, cache>>

(* ------------------------- set_value / get_value ---------------------- *)
set_value(w) ==
    \E k \in KvKeys, v \in KvValues :
        Begin(w, [Idle EXCEPT !.op = "set_value", !.pc = "redis_set",
                              !.key = k, !.value = v])

\* r.set(key, value); return {"key": key, "value": value}
set_value_set(w) ==
    LET r == rq[w]
    IN  /\ r.op = "set_value" /\ r.pc = "redis_set"
        /\ \E ok \in BOOLEAN :
            IF ok
            THEN /\ cache' = [cache EXCEPT ![r.key] = Some(r.value)]
                 /\ Finish(w, Return([key |-> r.key, value |-> r.value]), "none")
                 /\ UNCHANGED <<store, nextId>>
            ELSE /\ Finish(w, Raise(RedisError), "cache_set")
                 /\ UNCHANGED <<store, nextId, cache>>

get_value(w) ==
    \E k \in KvKeys :
        Begin(w, [Idle EXCEPT !.op = "get_value", !.pc = "redis_get", !.key = k])

\* val = r.get(key); "if val is None: raise 404"; return {"key": key, "value": val}
get_value_get(w) ==
    LET r == rq[w]
        val == cache[r.key]
    IN  /\ r.op = "get_value" /\ r.pc = "redis_get"
        /\ \E ok \in BOOLEAN :
            Finish(w, IF ~ok THEN Raise(RedisError)
                      ELSE IF IsNone(val) THEN Raise(HTTPException(404, "Key not found"))
                      ELSE Return([key |-> r.key, value |-> Val(val)]),
                   IF ok THEN "none" ELSE "cache_get")
        /\ UNCHANGED <<store, nextId, cache>>

(* -------------------------------- health ----------------------------- *)
health(w) ==
    Begin(w, [Idle EXCEPT !.op = "health", !.pc = "ping"])

\* try: r.ping(); redis_ok = True / except Exception: redis_ok = False
health_ping(w) ==
    LET r == rq[w]
    IN  /\ r.op = "health" /\ r.pc = "ping"
        /\ \E ok \in BOOLEAN :
            Goto(w, [r EXCEPT !.redis_ok = ok, !.pc = "probe_pg",
                              !.probed = Append(r.probed, ok)])
        /\ UNCHANGED <<store, nextId, cache>>

\* a health dict whose status looks at Redis alone
HealthBodyRedisOnly(redis_ok, pg_ok) ==
    [status |-> IF redis_ok THEN "ok" ELSE "degraded",
     redis |-> IF redis_ok THEN "up" ELSE "down",
     postgres |-> IF pg_ok THEN "up" ELSE "down"]

\* the dict health returns
HealthBody(redis_ok, pg_ok) ==
    [status |-> IF redis_ok /\ pg_ok THEN "ok" ELSE "degraded",
     redis |-> IF redis_ok THEN "up" ELSE "down",
     postgres |-> IF pg_ok THEN "up" ELSE "down"]

\* try: conn = get_db_conn(); conn.close(); pg_ok = True / except Exception:
\* pg_ok = False; return {...}
health_probe_pg(w) ==
    LET r == rq[w]
    IN  /\ r.op = "health" /\ r.pc = "probe_pg"
        /\ \E ok \in BOOLEAN :
            /\ Goto(w, [r EXCEPT !.pg_ok = ok, !.pc = "return",
                                 !.probed = Append(r.probed, ok)])
        /\ UNCHANGED <<store, nextId, cache>>

health_return(w) ==
    LET r == rq[w]
    IN  /\ r.op = "health" /\ r.pc = "return"
        /\ Finish(w, Return(HealthBody(r.redis_ok, r.pg_ok)), "none")
        /\ UNCHANGED <<store, nextId, cache>>

HealthStep(w) == health_ping(w) \/ health_probe_pg(w) \/ health_return(w)

(* --------------------------- specifications --------------------------- *)
UserRequest(w) ==
    \/ create_user(w)
    \/ list_users(w)
    \/ get_user(w)
    \/ update_user(w)
    \/ delete_user(w)

UserStep(w) ==
    \/ get_db_conn(w)
    \/ create_user_insert(w)
    \/ create_user_cache(w)
    \/ list_users_select(w)
    \/ get_user_cache_get(w)
    \/ get_user_select(w)
    \/ get_user_cache_fill(w)
    \/ update_user_select(w)
    \/ update_user_update(w)
    \/ update_user_cache(w)
    \/ delete_user_delete(w)
    \/ delete_user_cache_delete(w)

KvRequest(w) == set_value(w) \/ get_value(w)

KvStep(w) == set_value_set(w) \/ get_value_get(w)

\* requests handled one at a time: a request starts when none is in flight, so
\* one worker carries them all
SerialWorkers == {CHOOSE w \in Workers : TRUE}

Next ==
    \E w \in SerialWorkers :
        \/ AllIdle /\ (UserRequest(w) \/ KvRequest(w) \/ health(w))
        \/ UserStep(w)
        \/ KvStep(w)
        \/ HealthStep(w)
        \/ Reply(w)

Spec == Init /\ [][Next]_vars

\* the users endpoints alone, one request at a time
NextUsers ==
    \E w \in SerialWorkers :
        \/ AllIdle /\ UserRequest(w)
        \/ UserStep(w)
        \/ Reply(w)

SpecUsers == Init /\ [][NextUsers]_vars

\* the users endpoints with two requests overlapping: one thread per request,
\* each of two workers takes a request, and the steps of the two requests
\* interleave at their I/O calls
ConcWorkers == {w \in Workers : w <= 2}

\* one user is there already: its create_user was answered 201, or failed at
\* its cache write after the INSERT was committed
InitConc ==
    \E n \in Names, e \in Emails, cached \in BOOLEAN :
        LET user == [id |-> 1, name |-> n, email |-> e]
            empty == [k \in Keys |-> None]
        IN  /\ store = [i \in Ids |-> IF i = 1 THEN Some(user) ELSE None]
            /\ nextId = 2
            /\ cache = IF cached THEN cache_user(empty, user) ELSE empty
            /\ rq = [w \in Workers |-> Idle]
            /\ prev = None
            /\ gone = {}
            /\ kvset = [k \in KvKeys |-> None]

ConcRequest(w) == create_user(w) \/ get_user(w) \/ update_user(w) \/ delete_user(w)

ConcStep(w) ==
    \/ get_db_conn(w)
    \/ create_user_insert(w)
    \/ create_user_cache(w)
    \/ get_user_cache_get(w)
    \/ get_user_select(w)
    \/ get_user_cache_fill(w)
    \/ update_user_select(w)
    \/ update_user_update(w)
    \/ update_user_cache(w)
    \/ delete_user_delete(w)
    \/ delete_user_cache_delete(w)

NextConc ==
    \E w \in ConcWorkers :
        \/ ConcRequest(w)
        \/ ConcStep(w)

SpecConc == InitConc /\ [][NextConc]_vars

(* ------------------------------ properties ---------------------------- *)
Done(w) == rq[w].pc = "done"

UserOps == {"create_user", "list_users", "get_user", "update_user", "delete_user"}

\* the row a cache entry holds, as get_user_from_cache reads it
Entry(user_id) == get_user_from_cache(cache, user_id)

\* C1: a get_user(X) answered right after the create_user that returned X with 201,
\* with no failing I/O call, is answered 200 with the created id, name and email
\* and the source tag "cache".
C1_CreateThenGetTaggedCache ==
    \A w \in Workers :
        (/\ Done(w) /\ rq[w].op = "get_user" /\ rq[w].fault = "none"
         /\ ~IsNone(prev) /\ Val(prev).op = "create_user" /\ Val(prev).id = rq[w].id)
        => /\ rq[w].status = 200
           /\ UserOut(rq[w].body) = Val(prev).body
           /\ "_source" \in DOMAIN rq[w].body
           /\ rq[w].body["_source"] = "cache"

\* C2: an update_user answered 200 leaves, in the response, in the store row and in
\* the cache entry, the id unchanged, each omitted field as it was in the store
\* before the update and each supplied field as supplied.
C2_UpdateMergesPayload ==
    \A w \in Workers :
        (Done(w) /\ rq[w].op = "update_user" /\ rq[w].status = 200)
        => /\ ~IsNone(rq[w].pre)
           /\ LET r == rq[w]
                  old == Val(r.pre)
                  want == [id |-> r.id,
                           name |-> IF IsNone(r.name) THEN old.name ELSE Val(r.name),
                           email |-> IF IsNone(r.email) THEN old.email ELSE Val(r.email)]
              IN  /\ old.id = r.id
                  /\ r.body = want
                  /\ store[r.id] = Some(want)
                  /\ Entry(r.id) = Return(Some(want))

C2_Witness ==
    \E w \in Workers :
        /\ Done(w) /\ rq[w].op = "update_user" /\ rq[w].status = 200
        /\ IsNone(rq[w].name) /\ ~IsNone(rq[w].email)
        /\ Val(rq[w].email) # Val(rq[w].pre).email

\* C3: once delete_user(X) was answered 204, between requests the cache holds no
\* entry user:X, and every get_user(X) that meets no failing I/O call is answered 404.
C3_DeletedStaysGone ==
    \A x \in gone :
        /\ AllIdle => IsNone(cache[user_cache_key(x)])
        /\ \A w \in Workers :
            (Done(w) /\ rq[w].op = "get_user" /\ rq[w].id = x /\ rq[w].fault = "none")
            => rq[w].status = 404

\* C4: a create_user whose email an existing user holds changes no store row and
\* no cache entry, and, unless a store call fails, is answered 409; the holder's
\* row and cache entry, which get_user of its id reads, stay as they were.
C4_DuplicateEmailConflict ==
    /\ [](\A w \in Workers :
            (Done(w) /\ rq[w].op = "create_user" /\ ~IsNone(rq[w].pre)
                /\ rq[w].fault = "none")
            => /\ rq[w].status = 409
               /\ store[Val(rq[w].pre).id] = rq[w].pre)
    /\ [][\A w \in Workers :
            (rq[w].op = "create_user" /\ ~IsNone(rq[w].pre))
            => (store' = store /\ cache' = cache)]_vars

C4_Witness ==
    \E w \in Workers :
        /\ Done(w) /\ rq[w].op = "create_user" /\ rq[w].status = 409
        /\ ~IsNone(rq[w].pre) /\ Val(rq[w].pre).email = Val(rq[w].email)

\* C5: a get_user(X) of an id X that was never created, meeting no failing I/O
\* call, is answered 404 and leaves user:X absent from the cache.
C5_NeverCreatedNotFound ==
    \A w \in Workers :
        (Done(w) /\ rq[w].op = "get_user" /\ rq[w].id >= nextId /\ rq[w].fault = "none")
        => /\ rq[w].status = 404
           /\ IsNone(cache[user_cache_key(rq[w].id)])

\* C6: a get_user that missed the cache, found the row in the store and whose
\* cache write failed is answered 200 with the row fetched from the store.
C6_CacheFillFailureNotFatal ==
    \A w \in Workers :
        (Done(w) /\ rq[w].op = "get_user" /\ rq[w].fault = "cache_set")
        => /\ rq[w].status = 200
           /\ UserOut(rq[w].body) = Val(rq[w].row)

\* C7: between requests, a cache entry user:X that is present holds the current
\* store row of X.
C7_CacheEntryMatchesStore ==
    AllIdle =>
        \A x \in Ids :
            ~IsNone(cache[user_cache_key(x)])
            => /\ ~IsNone(store[x])
               /\ Entry(x) = Return(store[x])

\* the message of the failure of I/O call fault
FaultMessage(fault) ==
    IF fault \in {"connect", "execute"} THEN OperationalError.msg ELSE RedisError.msg

\* C8: a users request in which a store or cache call failed is answered 500 with
\* the failure's message as detail; without such a failure, a request for a row
\* that does not exist (and is not cached) is answered 404 and a create_user with
\* a held email 409.
C8_FailuresAnswered500WithMessage ==
    \A w \in Workers :
        /\ (Done(w) /\ rq[w].op \in UserOps /\ rq[w].fault # "none")
            => /\ rq[w].status = 500
               /\ rq[w].body = [detail |-> FaultMessage(rq[w].fault)]
        /\ (Done(w) /\ rq[w].op \in {"get_user", "update_user", "delete_user"}
                /\ rq[w].fault = "none" /\ IsNone(rq[w].pre)
                /\ IsNone(cache[user_cache_key(rq[w].id)]))
            => rq[w].status = 404
        /\ (Done(w) /\ rq[w].op = "create_user" /\ rq[w].fault = "none"
                /\ ~IsNone(rq[w].pre))
            => rq[w].status = 409

\* C9: no step of a set_value request changes a user cache entry, and no step of
\* a users request changes what get_value reads for any key.
C9_SeparateNamespaces ==
    [][\A w \in Workers :
        /\ rq[w].op = "set_value"
            => \A i \in Ids : cache'[user_cache_key(i)] = cache[user_cache_key(i)]
        /\ rq[w].op \in UserOps
            => \A k \in KvKeys : cache'[k] = cache[k]]_vars

\* C10: a get_value(k) that meets no failing I/O call is answered 404 if no
\* set_value(k, .) was answered before, and else 200 with the value of the last one.
C10_KvRoundTrip ==
    \A w \in Workers :
        (Done(w) /\ rq[w].op = "get_value" /\ rq[w].fault = "none")
        => IF IsNone(kvset[rq[w].key])
           THEN rq[w].status = 404
           ELSE /\ rq[w].status = 200
                /\ rq[w].body = [key |-> rq[w].key, value |-> Val(kvset[rq[w].key])]

\* C11: health is always answered 200; its redis and postgres fields report the
\* outcome of each probe, its status is "ok" exactly when both probes succeeded and
\* "degraded" otherwise; and no step of health changes a store row or a cache entry.
C11_HealthReportsAndNeverFails ==
    /\ [](\A w \in Workers :
            (Done(w) /\ rq[w].op = "health")
            => /\ rq[w].status = 200
               /\ Len(rq[w].probed) = 2
               /\ rq[w].body.redis = (IF rq[w].probed[1] THEN "up" ELSE "down")
               /\ rq[w].body.postgres = (IF rq[w].probed[2] THEN "up" ELSE "down")
               /\ (rq[w].body.status = "ok") <=> (rq[w].probed[1] /\ rq[w].probed[2])
               /\ rq[w].body.status \in {"ok", "degraded"})
    /\ [][\A w \in Workers :
            rq[w].op = "health" => (store' = store /\ cache' = cache /\ nextId' = nextId)]_vars

C11_Witness ==
    \E w \in Workers :
        /\ Done(w) /\ rq[w].op = "health"
        /\ rq[w].probed = <<TRUE, FALSE>> /\ rq[w].body.status = "degraded"

Mutations == {"create_user", "update_user", "delete_user"}

\* C12: in create_user, update_user and delete_user the cache is written or deleted
\* only after the store statement of the same request has committed: a request
\* that has touched the cache committed its store mutation earlier, and every
\* step of such a request that changes the cache finds the mutation committed and
\* leaves the store alone.
C12_CacheMutatedAfterStoreCommit ==
    /\ [](\A w \in Workers :
            (rq[w].op \in Mutations /\ rq[w].ct > 0)
            => (0 < rq[w].st /\ rq[w].st < rq[w].ct))
    /\ [][\A w \in Workers :
            (rq[w].op \in Mutations /\ rq'[w] # rq[w] /\ cache' # cache)
            => (rq[w].st > 0 /\ store' = store /\ rq'[w].ct > rq[w].st)]_vars

C12_Witness ==
    \E w \in Workers :
        /\ Done(w) /\ rq[w].op = "delete_user" /\ rq[w].status = 204
        /\ 0 < rq[w].st /\ rq[w].st < rq[w].ct
        /\ ~IsNone(Val(rq[w].snap).cache[user_cache_key(rq[w].id)])
        /\ IsNone(cache[user_cache_key(rq[w].id)])

\* C13: a create_user, update_user or delete_user answered 404 or 409 leaves every
\* store row and every cache entry as it was when the request started.
C13_RejectedMutationChangesNothing ==
    \A w \in Workers :
        (Done(w) /\ rq[w].op \in Mutations /\ rq[w].status \in {404, 409})
        => /\ store = Val(rq[w].snap).store
           /\ cache = Val(rq[w].snap).cache

C13_Witness ==
    \E w \in Workers :
        /\ Done(w) /\ rq[w].op = "delete_user" /\ rq[w].status = 404
        /\ ~IsNone(cache[user_cache_key(rq[w].id)])
        /\ cache = Val(rq[w].snap).cache

\* what get_user_from_cache read when the request of worker w started
CachedAtStart(w) == get_user_from_cache(Val(rq[w].snap).cache, rq[w].id)

\* C14: a get_user(X) that finds a cache entry user:X and meets no failing I/O call
\* is answered 200 with the entry's id, name and email and the source tag "cache",
\* without opening a connection and whatever the store holds for X.
C14_CacheHitSkipsStore ==
    \A w \in Workers :
        (/\ Done(w) /\ rq[w].op = "get_user" /\ rq[w].fault = "none"
         /\ CachedAtStart(w).kind = "return" /\ ~IsNone(CachedAtStart(w).value))
        => /\ rq[w].status = 200
           /\ UserOut(rq[w].body) = Val(CachedAtStart(w).value)
           /\ rq[w].opened = 0 /\ rq[w].conn = "None" /\ rq[w].st = 0
           /\ store = Val(rq[w].snap).store /\ cache = Val(rq[w].snap).cache
           /\ "_source" \in DOMAIN rq[w].body
           /\ rq[w].body["_source"] = "cache"

\* C15: a get_user(X) that finds no cache entry user:X while the store has a row
\* for X, and meets no failing I/O call, writes exactly that row to user:X, from
\* where a get_user(X) that follows reads it, and is answered 200 with the row and
\* the source tag "db".
C15_CacheMissFillsFromStore ==
    \A w \in Workers :
        (/\ Done(w) /\ rq[w].op = "get_user" /\ rq[w].fault = "none"
         /\ CachedAtStart(w) = Return(None)
         /\ ~IsNone(Val(rq[w].snap).store[rq[w].id]))
        => /\ rq[w].status = 200
           /\ UserOut(rq[w].body) = Val(Val(rq[w].snap).store[rq[w].id])
           /\ Entry(rq[w].id) = Return(Val(rq[w].snap).store[rq[w].id])
           /\ store = Val(rq[w].snap).store
           /\ "_source" \in DOMAIN rq[w].body
           /\ rq[w].body["_source"] = "db"

\* workers u and v have both returned from an update_user of the same id with 200
BothUpdated(u, v) ==
    /\ u # v /\ Done(u) /\ Done(v)
    /\ rq[u].op = "update_user" /\ rq[v].op = "update_user"
    /\ rq[u].status = 200 /\ rq[v].status = 200
    /\ rq[u].id = rq[v].id

\* C16: two overlapping update_user requests on the same id can interleave so that
\* both are answered 200 while the cache entry holds the row of the earlier store
\* write and the store the row of the later one: this is what the state is
\* whenever the earlier UPDATE's cache write comes after the later UPDATE's.
C16_ConcurrentUpdatesLeaveOlderCacheEntry ==
    \A u, v \in Workers :
        (BothUpdated(u, v) /\ rq[u].st < rq[v].st /\ rq[v].ct < rq[u].ct)
        => /\ Entry(rq[u].id) = Return(rq[u].row)
           /\ store[rq[u].id] = rq[v].row

C16_Witness ==
    \E u, v \in Workers :
        /\ BothUpdated(u, v) /\ rq[u].st < rq[v].st /\ rq[v].ct < rq[u].ct
        /\ rq[u].row # rq[v].row
        /\ Entry(rq[u].id) = Return(rq[u].row)
        /\ store[rq[u].id] = rq[v].row

\* worker g has returned from a get_user that missed the cache and found the row,
\* worker m from a successful update_user or delete_user of the same id
FilledAndMutated(g, m) ==
    /\ g # m /\ Done(g) /\ Done(m)
    /\ rq[g].op = "get_user" /\ rq[g].status = 200 /\ rq[g].st > 0
    /\ rq[g].fault = "none"
    /\ \/ rq[m].op = "update_user" /\ rq[m].status = 200
       \/ rq[m].op = "delete_user" /\ rq[m].status = 204
    /\ rq[m].id = rq[g].id

\* the get_user of g read the row before the mutation of m was committed and
\* wrote it to the cache after m's cache write or delete
FilledLate(g, m) == rq[g].st < rq[m].st /\ rq[m].ct < rq[g].ct

\* C17 as stated: when a get_user(X) that missed the cache and an update_user(X) or
\* delete_user(X) have both returned, the cache entry user:X equals the store row
\* after the update and is absent after the delete.
C17_FillNeverLeavesOlderEntry ==
    \A g, m \in Workers :
        FilledAndMutated(g, m) => Entry(rq[g].id) = Return(store[rq[g].id])

\* C17 amended: when a get_user(X) that missed the cache and an update_user(X) or
\* delete_user(X) have both returned, the cache entry user:X equals the store row
\* (absent after the delete) unless the get_user read the row before the mutation
\* was committed and filled the cache after the mutation's cache write or delete;
\* then the entry is the older row the get_user read.
C17_FillOrderDecidesEntry ==
    \A g, m \in Workers :
        FilledAndMutated(g, m)
        => IF FilledLate(g, m)
           THEN Entry(rq[g].id) = Return(rq[g].row)
           ELSE Entry(rq[g].id) = Return(store[rq[g].id])

C17_Witness ==
    \E g, m \in Workers :
        /\ FilledAndMutated(g, m) /\ FilledLate(g, m)
        /\ rq[m].op = "delete_user"
        /\ IsNone(store[rq[g].id])
        /\ Entry(rq[g].id) = Return(rq[g].row) /\ ~IsNone(rq[g].row)

\* C18: when an update_user(X) supplying only name and one supplying only email
\* overlap and both are answered 200, the store row carries the supplied name and
\* the supplied email.
C18_ConcurrentPartialUpdatesBothKept ==
    \A u, v \in Workers :
        (/\ BothUpdated(u, v)
         /\ ~IsNone(rq[u].name) /\ IsNone(rq[u].email)
         /\ IsNone(rq[v].name) /\ ~IsNone(rq[v].email))
        => /\ ~IsNone(store[rq[u].id])
           /\ Val(store[rq[u].id]).name = Val(rq[u].name)
           /\ Val(store[rq[u].id]).email = Val(rq[v].email)

\* the handler of worker w returned a value found in the cache
ServedFromCache(w) ==
    /\ rq[w].op = "get_user" /\ ~IsNone(rq[w].ret)
    /\ Val(rq[w].ret)["_source"] = "cache"

\* C19: a users request opens at most one store connection; when it has finished,
\* with whatever outcome, no connection it opened is still open; and a get_user
\* served from the cache has opened none.
C19_ConnectionOpenedOnceAndClosed ==
    \A w \in Workers :
        rq[w].op \in UserOps
        => /\ rq[w].opened <= 1
           /\ (rq[w].conn = "None") <=> (rq[w].opened = 0)
           /\ Done(w) => rq[w].conn # "open"
           /\ (Done(w) /\ ServedFromCache(w)) => rq[w].opened = 0

C19_Witness ==
    \E w \in Workers :
        /\ Done(w) /\ rq[w].op = "create_user" /\ rq[w].status = 409
        /\ rq[w].opened = 1 /\ rq[w].conn = "closed"

====
